---------------------------- MODULE Spec2Model ----------------------------
(***************************************************************************)
(* Navigation/route simulator of the 3D navigation app                     *)
(* (NavigationProvider in src/src/pages/Index.tsx, geo helpers in          *)
(* locationUtils, src/unnamed/part_003).                                   *)
(*                                                                         *)
(* Arithmetic.  The program computes on IEEE doubles; the model computes   *)
(* on a fixed-point grid:                                                  *)
(*   - one coordinate unit is 0.000125 degrees, so the synthesizer's       *)
(*     constants are whole numbers: 0.01 deg = 80, 0.005 deg = 40,         *)
(*     0.0005 deg = 4, 0.002 deg = 16;                                     *)
(*   - Math.random() yields a value r/4 with r in 0..3, so the jitter      *)
(*     (random - 0.5) * 0.0005 is r - 2 units and random > 0.5 is r = 3;   *)
(*   - all locations lie within 0.02 degrees of latitude 0, longitude 0,   *)
(*     where cos(lat) = 1 to seven digits: the spherical bearing formula   *)
(*     there is atan2(dLng, dLat) and the haversine distance is            *)
(*     R * sqrt(dLat^2 + dLng^2); bearings are whole degrees, distances    *)
(*     whole grid units (one unit of arc is 13.9 m);                       *)
(*   - quotients the program leaves fractional (step sizes, midpoints)     *)
(*     are rounded down to the grid; bearings and the zoom are rounded     *)
(*     down to whole numbers, progress to whole percent;                   *)
(*   - the one place where the rounding of doubles decides the result,     *)
(*     the sum bearing + 360, is modelled as such (Absorbed).              *)
(*                                                                         *)
(* React.  The operations are those of the context value (the API the UI   *)
(* components call).  One action is one event: the handler, the batched    *)
(* state updates it queued, the render that commits them and the effects   *)
(* of that commit (cleanup of the previous progress effect, then the new   *)
(* run).  A handler reads the state of the last render, which is the       *)
(* current state.  An interval callback is an event of its own and reads   *)
(* the values its closure captured when the effect ran.                    *)
(*                                                                         *)
(* Specifications.  Spec is the provider with the page's map position;     *)
(* FairSpec adds the fairness of the interval callback.  TurnTypeSpec,     *)
(* BearingSpec and FilterSpec each apply one helper of locationUtils to    *)
(* arguments drawn from a bounded set (args, result).  BatchSpec is the    *)
(* waypoint operations of the provider with the batching of state updates  *)
(* within one event (updates); ViewSpec is the view selection of the page  *)
(* (page); SearchSpec is the debounced search of the search bar            *)
(* (searchBar).                                                            *)
(***************************************************************************)
EXTENDS Integers, Sequences, FiniteSets

(***************************************************************************)
(* Bounds of the model.                                                    *)
(***************************************************************************)
MaxWaypoints == 2
MaxClock == 1

(***************************************************************************)
(* Small helpers.                                                          *)
(***************************************************************************)
Abs(x) == IF x < 0 THEN -x ELSE x

Max(a, b) == IF a >= b THEN a ELSE b

Last(s) == s[Len(s)]

\* A nullable value (Location | null, Date | null, number | null) is the
\* empty sequence or a sequence of one value.
Null == << >>

Some(x) == << x >>

Val(o) == o[1]

(***************************************************************************)
(* Locations: { latitude, longitude } in grid units.                       *)
(***************************************************************************)
Loc(lat, lng) == [latitude |-> lat, longitude |-> lng]

Coord(l) == Loc(l.latitude, l.longitude)

\* The places the user can pick as start, as destination and as a stop.
\* The start may equal the destination.
StartLocs == { Loc(0, 0), Loc(100, 30) }

DestinationLocs == { Loc(100, 30) }

WaypointLocs == { Loc(40, -30) }

\* the search result the user picks in the search bar
SelectLocs == { Loc(0, 0) }

(***************************************************************************)
(* calculateBearing: atan2(y, x) in degrees, plus 360 when negative.       *)
(***************************************************************************)
\* tan(k degrees) * 10000 for k = 1..45
TanTable ==
  << 175, 349, 524, 699, 875, 1051, 1228, 1405, 1584, 1763, 1944, 2126,
     2309, 2493, 2679, 2867, 3057, 3249, 3443, 3640, 3839, 4040, 4245,
     4452, 4663, 4877, 5095, 5317, 5543, 5774, 6009, 6249, 6494, 6745,
     7002, 7265, 7536, 7813, 8098, 8391, 8693, 9004, 9325, 9657, 10000 >>

\* atan(a / b) in whole degrees (rounded down) for 0 <= a <= b, b > 0: the
\* largest k in lo..hi with tan(k degrees) <= a / b, by bisection
RECURSIVE OctantSearch(_, _, _, _)
OctantSearch(a, b, lo, hi) ==
  IF lo = hi THEN lo
  ELSE LET mid == (lo + hi + 1) \div 2
       IN  IF TanTable[mid] * b <= 10000 * a
           THEN OctantSearch(a, b, mid, hi)
           ELSE OctantSearch(a, b, lo, mid - 1)

OctantDeg(a, b) == OctantSearch(a, b, 0, 45)

\* Math.atan2(y, x) * 180 / Math.PI, in (-180, 180], rounded down to whole
\* degrees; atan2(0, 0) = 0.  With whole y and x the angle is a whole number
\* of degrees only at the multiples of 45.
Atan2Deg(y, x) ==
  LET ay == Abs(y)
      ax == Abs(x)
      whole == ay = 0 \/ ax = 0 \/ ay = ax
      \* the acute angle atan(ay / ax), rounded down and rounded up
      lo == IF ay <= ax THEN (IF ax = 0 THEN 0 ELSE OctantDeg(ay, ax))
            ELSE IF ax = 0 THEN 90 ELSE 89 - OctantDeg(ax, ay)
      hi == IF whole THEN lo ELSE lo + 1
      \* the angle of (|y|, x) in [0, 180], rounded down and rounded up
      floorH == IF x >= 0 THEN lo ELSE 180 - hi
      ceilH  == IF x >= 0 THEN hi ELSE 180 - lo
  IN  IF y >= 0 THEN floorH ELSE -ceilH

\* The doubles next to 360 lie 2^-44 apart, so bearing + 360 is 360 itself
\* for a negative bearing above -2.8e-14 degrees, that is for y < 0 < x with
\* |y| / x below 5e-16.  The model's doubles are coarser: the sum absorbs a
\* negative angle with |y| / x below 1 / UlpRatio.
UlpRatio == 1000

Absorbed(y, x) == y < 0 /\ x > 0 /\ (-y) * UlpRatio < x

calculateBearing(startLat, startLng, destLat, destLng) ==
  LET y == destLng - startLng
      x == destLat - startLat
      bearing == Atan2Deg(y, x)
  IN  IF bearing < 0
      THEN (IF Absorbed(y, x) THEN 360 ELSE bearing + 360)
      ELSE bearing

(***************************************************************************)
(* calculateDistance: the haversine distance, in grid units of arc.        *)
(***************************************************************************)
calculateDistance(startLat, startLng, destLat, destLng) ==
  LET dLat == Abs(destLat - startLat)
      dLng == Abs(destLng - startLng)
  IN  CHOOSE r \in Max(dLat, dLng)..(dLat + dLng) :
        r * r <= dLat * dLat + dLng * dLng /\
        (r + 1) * (r + 1) > dLat * dLat + dLng * dLng


(***************************************************************************)
(* getTurnType: the turn type of a bearing change.                         *)
(***************************************************************************)
\* a % b of JavaScript for b > 0: the remainder has the sign of a
Rem(a, b) == IF a >= 0 THEN a % b ELSE -((-a) % b)

\* a variant without the normalization of the bearing change
getTurnTypeRaw(bearingChange) ==
  LET normalizedChange == bearingChange
  IN  IF normalizedChange < 20 \/ normalizedChange > 340 THEN "continue"
      ELSE IF normalizedChange >= 20 /\ normalizedChange < 60
      THEN "slight right"
      ELSE IF normalizedChange >= 60 /\ normalizedChange < 120 THEN "right"
      ELSE IF normalizedChange >= 120 /\ normalizedChange < 150
      THEN "sharp right"
      ELSE IF normalizedChange >= 150 /\ normalizedChange <= 210
      THEN "u-turn"
      ELSE IF normalizedChange > 210 /\ normalizedChange <= 240
      THEN "sharp left"
      ELSE IF normalizedChange > 240 /\ normalizedChange <= 300 THEN "left"
      ELSE "slight left"

getTurnType(bearingChange) ==
  LET normalizedChange == Rem(Rem(bearingChange, 360) + 360, 360)
  IN  IF normalizedChange < 20 \/ normalizedChange > 340 THEN "continue"
      ELSE IF normalizedChange >= 20 /\ normalizedChange < 60
      THEN "slight right"
      ELSE IF normalizedChange >= 60 /\ normalizedChange < 120 THEN "right"
      ELSE IF normalizedChange >= 120 /\ normalizedChange < 150
      THEN "sharp right"
      ELSE IF normalizedChange >= 150 /\ normalizedChange <= 210
      THEN "u-turn"
      ELSE IF normalizedChange > 210 /\ normalizedChange <= 240
      THEN "sharp left"
      ELSE IF normalizedChange > 240 /\ normalizedChange <= 300 THEN "left"
      ELSE "slight left"

(***************************************************************************)
(* filterLocations: the search of the location directory.  A string is a   *)
(* sequence of characters; an optional field is Null or Some(string).      *)
(***************************************************************************)
\* String.prototype.toLowerCase, on the letters the model uses
LowerChar(c) == IF c = "A" THEN "a" ELSE IF c = "B" THEN "b" ELSE c

toLowerCase(str) == [i \in 1..Len(str) |-> LowerChar(str[i])]

\* String.prototype.trim: without the leading and the trailing whitespace
RECURSIVE trimStart(_)
trimStart(str) ==
  IF str # << >> /\ Head(str) = " " THEN trimStart(Tail(str)) ELSE str

RECURSIVE trimEnd(_)
trimEnd(str) ==
  IF str # << >> /\ Last(str) = " "
  THEN trimEnd(SubSeq(str, 1, Len(str) - 1))
  ELSE str

trim(str) == trimEnd(trimStart(str))

\* String.prototype.includes
includes(str, searchString) ==
  \E i \in 0..(Len(str) - Len(searchString)) :
    SubSeq(str, i + 1, i + Len(searchString)) = searchString

\* field?.toLowerCase().includes(normalizedQuery)
OptIncludes(field, normalizedQuery) ==
  field # Null /\ includes(toLowerCase(Val(field)), normalizedQuery)

\* a variant of the filter callback without the check of the description
KeepWithoutDescription(location, normalizedQuery) ==
  IF includes(toLowerCase(location.name), normalizedQuery) THEN TRUE
  ELSE IF location.address # Null
          /\ LET address == Val(location.address)
             IN  \/ OptIncludes(address.street, normalizedQuery)
                 \/ OptIncludes(address.district, normalizedQuery)
                 \/ OptIncludes(address.city, normalizedQuery)
                 \/ OptIncludes(address.state, normalizedQuery)
                 \/ OptIncludes(address.country, normalizedQuery)
                 \/ OptIncludes(address.postalCode, normalizedQuery)
  THEN TRUE
  ELSE IF OptIncludes(location.category, normalizedQuery) THEN TRUE
  ELSE FALSE

\* the callback of locations.filter
Keep(location, normalizedQuery) ==
  IF includes(toLowerCase(location.name), normalizedQuery) THEN TRUE
  ELSE IF location.address # Null
          /\ LET address == Val(location.address)
             IN  \/ OptIncludes(address.street, normalizedQuery)
                 \/ OptIncludes(address.district, normalizedQuery)
                 \/ OptIncludes(address.city, normalizedQuery)
                 \/ OptIncludes(address.state, normalizedQuery)
                 \/ OptIncludes(address.country, normalizedQuery)
                 \/ OptIncludes(address.postalCode, normalizedQuery)
  THEN TRUE
  ELSE IF OptIncludes(location.category, normalizedQuery) THEN TRUE
  ELSE IF OptIncludes(location.description, normalizedQuery) THEN TRUE
  ELSE FALSE

filterLocations(locations, query) ==
  IF trim(query) = << >> THEN << >>
  ELSE LET normalizedQuery == trim(toLowerCase(query))
       IN  SelectSeq(locations, LAMBDA location : Keep(location, normalizedQuery))

(***************************************************************************)
(* Math.random(): the k-th draw of a random stream, a cyclic sequence of   *)
(* quarters r (the value r/4).  Each call consumes the next draw.          *)
(***************************************************************************)
Streams == { <<0>>, <<3>>, <<3, 3, 1>> }

Random(rs, k) == rs[(k % Len(rs)) + 1]

\* (Math.random() - 0.5) * 0.0005
Jitter(rs, k) == Random(rs, k) - 2

(***************************************************************************)
(* generateStreetBasedRoute: the street-grid route synthesizer.  Returns   *)
(* the path and the number of random draws consumed so far.                *)
(***************************************************************************)
\* if (path.length > 3) for (i = 1; i < path.length - 1; i += 2) ...
\* i is the code's 0-based index; path[i] of the code is path[i + 1] here.
RECURSIVE Detours(_, _, _, _)
Detours(path, i, rs, k) ==
  IF ~(i < Len(path) - 1) THEN [path |-> path, k |-> k]
  ELSE IF Random(rs, k) = 3 /\ i + 1 < Len(path)
  THEN LET midLat == (path[i + 1].latitude + path[i + 2].latitude) \div 2
           midLng == (path[i + 1].longitude + path[i + 2].longitude) \div 2
           offset == 16 * (IF Random(rs, k + 1) = 3 THEN 1 ELSE -1)
           spliced == SubSeq(path, 1, i + 1)
                        \o << Loc(midLat + offset, midLng + offset) >>
                        \o SubSeq(path, i + 2, Len(path))
       IN  Detours(spliced, i + 3, rs, k + 2)
  ELSE Detours(path, i + 2, rs, k + 1)

\* a variant of the grid walk without the minimum of one step per axis
StreetGridNoMinimum(startLat, startLng, endLat, endLng, rs, k) ==
  LET latDiff  == endLat - startLat
      lngDiff  == endLng - startLng
      latSteps == IF Abs(latDiff) > 80 THEN Abs(latDiff) \div 40 ELSE 0
      lngSteps == IF Abs(lngDiff) > 80 THEN Abs(lngDiff) \div 40 ELSE 0
      latAt(i) == startLat + (latDiff * i) \div latSteps
      lngAt(i) == startLng + (lngDiff * i) \div lngSteps
      grid ==
        IF Abs(latDiff) > Abs(lngDiff)
        THEN [i \in 1..latSteps |->
                Loc(latAt(i), startLng + Jitter(rs, k + i - 1))]
             \o [i \in 1..lngSteps |->
                Loc(startLat + latDiff + Jitter(rs, k + latSteps + i - 1),
                    lngAt(i))]
        ELSE [i \in 1..lngSteps |->
                Loc(startLat + Jitter(rs, k + i - 1), lngAt(i))]
             \o [i \in 1..latSteps |->
                Loc(latAt(i),
                    startLng + lngDiff + Jitter(rs, k + lngSteps + i - 1))]
      path == << Loc(startLat, startLng) >> \o grid
      k2   == k + latSteps + lngSteps
  IN  IF Len(path) > 3 THEN Detours(path, 1, rs, k2)
      ELSE [path |-> path, k |-> k2]

\* the start point, the grid walk along both axes and the detours: the path
\* before the end point is pushed
StreetGrid(startLat, startLng, endLat, endLng, rs, k) ==
  LET latDiff  == endLat - startLat
      lngDiff  == endLng - startLng
      latSteps == IF Abs(latDiff) > 80 THEN Abs(latDiff) \div 40 ELSE 1
      lngSteps == IF Abs(lngDiff) > 80 THEN Abs(lngDiff) \div 40 ELSE 1
      latAt(i) == startLat + (latDiff * i) \div latSteps
      lngAt(i) == startLng + (lngDiff * i) \div lngSteps
      grid ==
        IF Abs(latDiff) > Abs(lngDiff)
        THEN [i \in 1..latSteps |->
                Loc(latAt(i), startLng + Jitter(rs, k + i - 1))]
             \o [i \in 1..lngSteps |->
                Loc(startLat + latDiff + Jitter(rs, k + latSteps + i - 1),
                    lngAt(i))]
        ELSE [i \in 1..lngSteps |->
                Loc(startLat + Jitter(rs, k + i - 1), lngAt(i))]
             \o [i \in 1..latSteps |->
                Loc(latAt(i),
                    startLng + lngDiff + Jitter(rs, k + lngSteps + i - 1))]
      path == << Loc(startLat, startLng) >> \o grid
      k2   == k + latSteps + lngSteps
  IN  IF Len(path) > 3 THEN Detours(path, 1, rs, k2)
      ELSE [path |-> path, k |-> k2]

\* a variant of the synthesizer that does not push the end point
generateRouteWithoutEnd(startLat, startLng, endLat, endLng, rs, k) ==
  StreetGrid(startLat, startLng, endLat, endLng, rs, k)

generateStreetBasedRoute(startLat, startLng, endLat, endLng, rs, k) ==
  LET det == StreetGrid(startLat, startLng, endLat, endLng, rs, k)
  IN  [path |-> det.path \o << Loc(endLat, endLng) >>, k |-> det.k]

(***************************************************************************)
(* calculateTurns: the turn derivation of a path.                          *)
(***************************************************************************)
Bearing(a, b) ==
  calculateBearing(a.latitude, a.longitude, b.latitude, b.longitude)

Distance(a, b) ==
  calculateDistance(a.latitude, a.longitude, b.latitude, b.longitude)

Turn(from, to, instr, dist, loc) ==
  [fromBearing |-> from, toBearing |-> to, instruction |-> instr,
   distance |-> dist, location |-> loc]

\* the instruction of an interior point, from its bearing change
Instruction(bearingChange) ==
  IF bearingChange > 30 /\ bearingChange < 150 THEN "Turn right"
  ELSE IF bearingChange >= 150 /\ bearingChange <= 210 THEN "Make a U-turn"
  ELSE IF bearingChange > 210 /\ bearingChange < 330 THEN "Turn left"
  ELSE "Continue straight"

\* a variant of the loop body that measures the distance to the next point
InteriorTurnNextDistance(path, i) ==
  LET prevBearing   == Bearing(path[i], path[i + 1])
      nextBearing   == Bearing(path[i + 1], path[i + 2])
      bearingChange == (nextBearing - prevBearing + 360) % 360
      distance      == Distance(path[i + 1], path[i + 2])
  IN  IF Abs(bearingChange - 180) > 20
      THEN << Turn(prevBearing, nextBearing, Instruction(bearingChange),
                   distance, path[i + 1]) >>
      ELSE << >>

\* the body of the loop over the interior points; i is the code's 0-based
\* index, so path[i] of the code is path[i + 1] here
InteriorTurn(path, i) ==
  LET prevBearing   == Bearing(path[i], path[i + 1])
      nextBearing   == Bearing(path[i + 1], path[i + 2])
      bearingChange == (nextBearing - prevBearing + 360) % 360
      distance      == Distance(path[i], path[i + 1])
  IN  IF Abs(bearingChange - 180) > 20
      THEN << Turn(prevBearing, nextBearing, Instruction(bearingChange),
                   distance, path[i + 1]) >>
      ELSE << >>

RECURSIVE InteriorTurns(_, _)
InteriorTurns(path, i) ==
  IF ~(i < Len(path) - 1) THEN << >>
  ELSE InteriorTurn(path, i) \o InteriorTurns(path, i + 1)

\* a variant of the turn derivation without the arrival marker
calculateTurnsNoArrival(path) ==
  IF Len(path) < 3 THEN << >>
  ELSE LET initialBearing == Bearing(path[1], path[2])
       IN  << Turn(initialBearing, initialBearing, "Start navigation", 0,
                   path[1]) >>
           \o InteriorTurns(path, 1)

\* a variant whose arrival entry carries the distance of the whole path
calculateTurnsArrivalTotal(path) ==
  IF Len(path) < 3 THEN << >>
  ELSE LET n == Len(path)
           initialBearing == Bearing(path[1], path[2])
       IN  << Turn(initialBearing, initialBearing, "Start navigation", 0,
                   path[1]) >>
           \o InteriorTurns(path, 1)
           \o << Turn(Bearing(path[n - 1], path[n]), 0,
                      "Arrive at destination",
                      Distance(path[1], path[2])
                        + Distance(path[2], path[n - 1])
                        + Distance(path[n - 1], path[n]), path[n]) >>

calculateTurns(path) ==
  IF Len(path) < 3 THEN << >>
  ELSE LET n == Len(path)
           initialBearing == Bearing(path[1], path[2])
       IN  << Turn(initialBearing, initialBearing, "Start navigation", 0,
                   path[1]) >>
           \o InteriorTurns(path, 1)
           \o << Turn(Bearing(path[n - 1], path[n]), 0,
                      "Arrive at destination",
                      Distance(path[n - 1], path[n]), path[n]) >>

(***************************************************************************)
(* calculateETA: total distance and arrival time.  One grid unit of arc    *)
(* is 0.013899 km, and an hour is 3600000 ms.                              *)
(***************************************************************************)
averageSpeedKmh == 50

\* a variant of the loop that stops one pair early
RECURSIVE TotalDistanceOpen(_, _)
TotalDistanceOpen(path, i) ==
  IF ~(i < Len(path) - 1) THEN 0
  ELSE Distance(path[i], path[i + 1]) + TotalDistanceOpen(path, i + 1)

\* for (let i = 0; i < path.length - 1; i++) totalDistance += ...
RECURSIVE TotalDistance(_, _)
TotalDistance(path, i) ==
  IF ~(i < Len(path)) THEN 0
  ELSE Distance(path[i], path[i + 1]) + TotalDistance(path, i + 1)

calculateETA(totalDistance, clock) ==
  LET timeInMs == (totalDistance * 13899 * 36) \div (averageSpeedKmh * 10)
  IN  [eta |-> clock + timeInMs, distance |-> totalDistance]

(***************************************************************************)
(* useMapPosition: the map position of a hook instance.  The page (Index)  *)
(* and NavigationProvider each call the hook, so each holds a position of  *)
(* its own; the renderers are given the page's.  previousPosition and      *)
(* tracking are never read by the page or the provider and are left out.   *)
(***************************************************************************)
\* latitude 40.7128, longitude -74.006, on the grid
defaultPosition ==
  [latitude |-> 325702, longitude |-> -592048, zoom |-> 3, pitch |-> 0,
   bearing |-> 0]

\* setPosition(prev => ({ ...prev, ...newPosition }))
flyTo(prev, newPosition) ==
  [prev EXCEPT !.latitude = newPosition.latitude,
               !.longitude = newPosition.longitude,
               !.zoom = newPosition.zoom]

\* 10 - Math.log2(0) is Infinity
Infinity == 2147483647

\* the largest whole z with z <= 10 - log2(maxDiff * 111), from z upwards:
\* maxDiff is u / 8000 degrees, so z qualifies when u * 111 * 2^z <= 8000 * 2^10
RECURSIVE ZoomSearch(_, _)
ZoomSearch(u, z) ==
  IF u * 111 * (2 ^ (z + 1)) <= 8192000 THEN ZoomSearch(u, z + 1) ELSE z

\* Math.max(2, 10 - Math.log2(maxDiff * 111)), rounded down
Zoom(maxDiff) ==
  IF maxDiff = 0 THEN Infinity ELSE ZoomSearch(maxDiff, 2)

\* the position startNavigation flies to: the midpoint of the endpoints
RoutePosition(cur, dest) ==
  LET midLat  == (cur.latitude + dest.latitude) \div 2
      midLng  == (cur.longitude + dest.longitude) \div 2
      latDiff == Abs(cur.latitude - dest.latitude)
      lngDiff == Abs(cur.longitude - dest.longitude)
      maxDiff == Max(latDiff, lngDiff)
  IN  [latitude |-> midLat, longitude |-> midLng, zoom |-> Zoom(maxDiff)]

(***************************************************************************)
(* The state of NavigationProvider.                                        *)
(*   timers   the live intervals of the progress effect, each with the     *)
(*            currentStep and turns its callback closed over               *)
(*   toast    the title of the last notification shown                     *)
(*   now      Date.now()                                                   *)
(*   mounted  whether the provider is mounted                              *)
(***************************************************************************)
VARIABLES currentLocation, destination, routePath, waypoints, turns,
          isNavigating, estimatedTimeOfArrival, estimatedDistance,
          currentStep, timers, toast, now, mounted,
          position, providerPosition, args, result, updates, page,
          searchBar

vars == << currentLocation, destination, routePath, waypoints, turns,
           isNavigating, estimatedTimeOfArrival, estimatedDistance,
           currentStep, timers, toast, now, mounted,
           position, providerPosition, args, result, updates, page,
           searchBar >>

\* the state of the two useMapPosition() hooks
mapVars == << position, providerPosition >>

\* a call of a pure helper: its arguments and, once applied, its result
callVars == << args, result >>

\* the state updates a running event handler has queued and React has not
\* yet applied
batchVars == << updates >>

\* the state of the page (Index): isGlobeView, cesiumFailed, is3DFallback
\* and isLoading, and which of the two listings of the page in the source
\* is built (listing)
viewVars == << page >>

\* the state of the search bar: per field (start, end) the query, the
\* results shown, the loading flag and the pending timeouts of the search
\* effect, each timeout with the query its callback closed over
searchVars == << searchBar >>

\* the state beside the provider's committed state
extraVars == << batchVars, viewVars, searchVars >>

\* the state of the provider and the page
appVars == << currentLocation, destination, routePath, waypoints, turns,
              isNavigating, estimatedTimeOfArrival, estimatedDistance,
              currentStep, timers, toast, now, mounted, mapVars,
              extraVars >>

\* what startNavigation produces and endNavigation destroys
navState == << routePath, turns, isNavigating, estimatedTimeOfArrival,
               estimatedDistance, currentStep >>

\* Number.prototype.toString of a timestamp
Digits == << "0", "1", "2", "3", "4", "5", "6", "7", "8", "9" >>

RECURSIVE ToString(_)
ToString(n) ==
  IF n < 10 THEN Digits[n + 1]
  ELSE ToString(n \div 10) \o Digits[(n % 10) + 1]

(***************************************************************************)
(* The progress effect: useEffect(..., [isNavigating, turns, currentStep,  *)
(* toast]).  When a dependency changed, the previous run's cleanup clears  *)
(* the interval that run created, and the effect runs anew.                *)
(***************************************************************************)
\* a variant of the effect that returns no cleanup
CleanupMissing(ts) == ts

\* return () => clearInterval(interval)
Cleanup(ts) ==
  IF ts = << >> THEN ts ELSE SubSeq(ts, 1, Len(ts) - 1)

\* a variant of the effect without its guard on isNavigating
ProgressEffectUnguarded(ts, nav, trn, step) ==
  Append(Cleanup(ts), [currentStep |-> step, turns |-> trn])

ProgressEffect(ts, nav, trn, step) ==
  LET cleaned == Cleanup(ts)
  IN  IF ~nav \/ Len(trn) = 0 THEN cleaned
      ELSE Append(cleaned, [currentStep |-> step, turns |-> trn])

(***************************************************************************)
(* getProgress: the share of the route's distance behind the current step, *)
(* in whole percent.                                                       *)
(***************************************************************************)
Min(a, b) == IF a <= b THEN a ELSE b

\* a variant that sums the entries from the current step onwards
RECURSIVE DistanceAhead(_, _)
DistanceAhead(trn, step) ==
  IF step >= Len(trn) THEN 0
  ELSE trn[step + 1].distance + DistanceAhead(trn, step + 1)

\* for (let i = 0; i < currentStep; i++) distanceTraveled += turns[i].distance
RECURSIVE DistanceTraveled(_, _)
DistanceTraveled(trn, step) ==
  IF step = 0 THEN 0
  ELSE DistanceTraveled(trn, step - 1) + trn[step].distance

getProgress ==
  IF ~isNavigating \/ estimatedDistance = Null \/ currentStep = 0 THEN 0
  ELSE Min(100, Max(0, (DistanceTraveled(turns, currentStep) * 100)
                         \div Val(estimatedDistance)))

(***************************************************************************)
(* getCurrentStep and getNextTurn: the entry of turns at the current step  *)
(* and the one after it.  turns[k] of the code is turns[k + 1] here.       *)
(***************************************************************************)
getCurrentStep ==
  IF ~isNavigating \/ Len(turns) = 0 \/ currentStep >= Len(turns) THEN Null
  ELSE Some(turns[currentStep + 1])

\* a variant that returns the entry of the current step
getNextTurnSameStep ==
  IF ~isNavigating \/ Len(turns) = 0 \/ currentStep + 1 >= Len(turns)
  THEN Null
  ELSE Some(turns[currentStep + 1])

getNextTurn ==
  IF ~isNavigating \/ Len(turns) = 0 \/ currentStep + 1 >= Len(turns)
  THEN Null
  ELSE Some(turns[currentStep + 2])

\* the two listings of the page: the first (with a loading screen) renders
\* one of the three renderers, the second renders all three and sets their
\* visible flags
Listings == { "first", "second" }

\* useState(...) of the page: isGlobeView starts true in the first listing,
\* false in the second; only the first has isLoading
PageInit(listing) ==
  page = [listing |-> listing, isGlobeView |-> listing = "first",
          cesiumFailed |-> FALSE, is3DFallback |-> FALSE,
          isLoading |-> listing = "first"]

\* the provider and the hooks as constructed
Constructed ==
  /\ currentLocation = Null
  /\ destination = Null
  /\ routePath = << >>
  /\ waypoints = << >>
  /\ turns = << >>
  /\ isNavigating = FALSE
  /\ estimatedTimeOfArrival = Null
  /\ estimatedDistance = Null
  /\ currentStep = 0
  /\ timers = << >>
  /\ toast = "none"
  /\ now = 0
  /\ mounted = TRUE
  /\ position = defaultPosition
  /\ providerPosition = defaultPosition
  /\ updates = << >>
  /\ searchBar = [startQuery |-> << >>, endQuery |-> << >>,
                  startResults |-> << >>, endResults |-> << >>,
                  isSearchingStart |-> FALSE, isSearchingEnd |-> FALSE,
                  startTimeouts |-> << >>, endTimeouts |-> << >>]

\* the provider and the page as constructed
Idle ==
  /\ Constructed
  /\ PageInit("second")

Init ==
  /\ Idle
  /\ args = Null
  /\ result = Null

(***************************************************************************)
(* The setters.                                                            *)
(***************************************************************************)
SetCurrentLocation(loc) ==
  /\ mounted
  /\ currentLocation' = Some(loc)
  /\ UNCHANGED << mapVars, callVars, extraVars,
                  destination, routePath, waypoints, turns, isNavigating,
                  estimatedTimeOfArrival, estimatedDistance, currentStep,
                  timers, toast, now, mounted >>

SetDestination(loc) ==
  /\ mounted
  /\ destination' = Some(loc)
  /\ UNCHANGED << mapVars, callVars, extraVars,
                  currentLocation, routePath, waypoints, turns,
                  isNavigating, estimatedTimeOfArrival, estimatedDistance,
                  currentStep, timers, toast, now, mounted >>

(***************************************************************************)
(* The page's handleLocationSelect (the search bar's onSelectLocation):    *)
(* the page's own flyTo.                                                   *)
(***************************************************************************)
HandleLocationSelect(location) ==
  /\ mounted
  /\ position' = flyTo(position, [latitude |-> location.latitude,
                                  longitude |-> location.longitude,
                                  zoom |-> 10])
  /\ toast' = "Location updated"
  /\ UNCHANGED << providerPosition, callVars, extraVars,
                  currentLocation, destination, routePath, waypoints, turns,
                  isNavigating, estimatedTimeOfArrival, estimatedDistance,
                  currentStep, timers, now, mounted >>

(***************************************************************************)
(* Waypoints.                                                              *)
(***************************************************************************)
\* { ...location, id: Date.now().toString() }
NewWaypoint(loc, clock) ==
  [latitude |-> loc.latitude, longitude |-> loc.longitude,
   id |-> ToString(clock)]

addWaypoint(prev, loc, clock) == Append(prev, NewWaypoint(loc, clock))

removeWaypoint(prev, id) == SelectSeq(prev, LAMBDA wp : wp.id # id)

\* waypoints.find(wp => wp.id === id): the first match, or undefined
Find(wps, id) ==
  IF \E i \in 1..Len(wps) : wps[i].id = id
  THEN << wps[CHOOSE i \in 1..Len(wps) :
                /\ wps[i].id = id
                /\ \A j \in 1..(i - 1) : wps[j].id # id] >>
  ELSE << >>

RECURSIVE reorderWaypoints(_, _)
reorderWaypoints(wps, ids) ==
  IF ids = << >> THEN << >>
  ELSE Find(wps, Head(ids)) \o reorderWaypoints(wps, Tail(ids))

\* the ids a caller may pass, and the id lists: none, one or two ids
Ids == { ToString(t) : t \in 0..MaxClock }

IdLists == { << >> } \cup { << a >> : a \in Ids }
             \cup { << a, b >> : a \in Ids, b \in Ids }

AddWaypoint(loc) ==
  /\ mounted
  /\ Len(waypoints) < MaxWaypoints
  /\ waypoints' = addWaypoint(waypoints, loc, now)
  /\ UNCHANGED << mapVars, callVars, extraVars,
                  currentLocation, destination, routePath, turns,
                  isNavigating, estimatedTimeOfArrival, estimatedDistance,
                  currentStep, timers, toast, now, mounted >>

RemoveWaypoint(id) ==
  /\ mounted
  /\ waypoints' = removeWaypoint(waypoints, id)
  /\ UNCHANGED << mapVars, callVars, extraVars,
                  currentLocation, destination, routePath, turns,
                  isNavigating, estimatedTimeOfArrival, estimatedDistance,
                  currentStep, timers, toast, now, mounted >>

ReorderWaypoints(ids) ==
  /\ mounted
  /\ waypoints' = reorderWaypoints(waypoints, ids)
  /\ UNCHANGED << mapVars, callVars, extraVars,
                  currentLocation, destination, routePath, turns,
                  isNavigating, estimatedTimeOfArrival, estimatedDistance,
                  currentStep, timers, toast, now, mounted >>

(***************************************************************************)
(* startNavigation.                                                        *)
(***************************************************************************)
\* a variant of the loop that keeps the last point of every segment
RECURSIVE CompletePathKeepsJunctions(_, _, _, _)
CompletePathKeepsJunctions(fullPath, i, rs, k) ==
  IF ~(i < Len(fullPath)) THEN << >>
  ELSE LET seg == generateStreetBasedRoute(
                    fullPath[i].latitude, fullPath[i].longitude,
                    fullPath[i + 1].latitude, fullPath[i + 1].longitude,
                    rs, k)
       IN  seg.path \o CompletePathKeepsJunctions(fullPath, i + 1, rs, seg.k)

\* the loop over the consecutive pairs of fullPath; i is 1-based here
RECURSIVE CompletePath(_, _, _, _)
CompletePath(fullPath, i, rs, k) ==
  IF ~(i < Len(fullPath)) THEN << >>
  ELSE LET seg == generateStreetBasedRoute(
                    fullPath[i].latitude, fullPath[i].longitude,
                    fullPath[i + 1].latitude, fullPath[i + 1].longitude,
                    rs, k)
           segment == seg.path
       IN  (IF i < Len(fullPath) - 1
            THEN SubSeq(segment, 1, Len(segment) - 1)
            ELSE segment)
           \o CompletePath(fullPath, i + 1, rs, seg.k)

\* [currentLocation, ...waypoints, destination]
FullPath(cur, wps, dest) ==
  << Coord(cur) >> \o [i \in 1..Len(wps) |-> Coord(wps[i])] \o << Coord(dest) >>

(***************************************************************************)
(* The routes the model can ask for, computed once: the route, its turns   *)
(* and its total distance for every list of stops and random stream.       *)
(***************************************************************************)
StopLists == UNION { [1..n -> WaypointLocs] : n \in 0..MaxWaypoints }

FullPaths ==
  { << a >> \o w \o << b >> :
      a \in StartLocs, b \in DestinationLocs, w \in StopLists }

RouteTable ==
  [f \in FullPaths, rs \in Streams |->
     LET p == CompletePath(f, 1, rs, 0)
     IN  [path |-> p, turns |-> calculateTurns(p),
          distance |-> TotalDistance(p, 1)]]

\* a variant of the guard without its return: the notification is shown
\* and the handler goes on to setIsNavigating(true)
StartNavigationRejectedNoReturn ==
  /\ toast' = "Cannot start navigation"
  /\ isNavigating' = TRUE
  /\ UNCHANGED << mapVars, callVars, extraVars,
                  currentLocation, destination, routePath, waypoints, turns,
                  estimatedTimeOfArrival, estimatedDistance, currentStep,
                  timers, now, mounted >>

\* if (!currentLocation || !destination) { toast(...); return; }
StartNavigationRejected ==
  /\ toast' = "Cannot start navigation"
  /\ UNCHANGED << mapVars, callVars, extraVars,
                  currentLocation, destination, routePath, waypoints, turns,
                  isNavigating, estimatedTimeOfArrival, estimatedDistance,
                  currentStep, timers, now, mounted >>

\* a variant of startNavigation without setCurrentStep(0)
StartNavigationKeepsStep(rs) ==
  LET r == RouteTable[FullPath(Val(currentLocation), waypoints,
                               Val(destination)), rs]
      e == calculateETA(r.distance, now)
  IN  /\ routePath' = r.path
      /\ isNavigating' = TRUE
      /\ turns' = r.turns
      /\ estimatedTimeOfArrival' = Some(e.eta)
      /\ estimatedDistance' = Some(e.distance)
      /\ providerPosition' =
           flyTo(providerPosition,
                 RoutePosition(Val(currentLocation), Val(destination)))
      /\ toast' = "Navigation started"
      /\ timers' = ProgressEffect(timers, TRUE, r.turns, currentStep)
      /\ UNCHANGED << position, callVars, extraVars,
                      currentLocation, destination, waypoints, currentStep,
                      now, mounted >>

StartNavigationAccepted(rs) ==
  LET r == RouteTable[FullPath(Val(currentLocation), waypoints,
                               Val(destination)), rs]
      completePath    == r.path
      calculatedTurns == r.turns
      e               == calculateETA(r.distance, now)
  IN  /\ routePath' = completePath
      /\ isNavigating' = TRUE
      /\ turns' = calculatedTurns
      /\ currentStep' = 0
      /\ estimatedTimeOfArrival' = Some(e.eta)
      /\ estimatedDistance' = Some(e.distance)
      /\ providerPosition' =
           flyTo(providerPosition,
                 RoutePosition(Val(currentLocation), Val(destination)))
      /\ toast' = "Navigation started"
      /\ timers' = ProgressEffect(timers, TRUE, calculatedTurns, 0)
      /\ UNCHANGED << position, callVars, extraVars,
                      currentLocation, destination, waypoints, now, mounted >>

StartNavigation ==
  /\ mounted
  /\ IF currentLocation = Null \/ destination = Null
     THEN StartNavigationRejected
     ELSE \E rs \in Streams : StartNavigationAccepted(rs)

(***************************************************************************)
(* endNavigation.                                                          *)
(***************************************************************************)
\* a variant of endNavigation that also clears the waypoints
EndNavigationClearsWaypoints ==
  /\ mounted
  /\ isNavigating' = FALSE
  /\ routePath' = << >>
  /\ turns' = << >>
  /\ currentStep' = 0
  /\ estimatedTimeOfArrival' = Null
  /\ estimatedDistance' = Null
  /\ waypoints' = << >>
  /\ toast' = "Navigation ended"
  /\ timers' = ProgressEffect(timers, FALSE, << >>, 0)
  /\ UNCHANGED << mapVars, callVars, extraVars,
                  currentLocation, destination, now, mounted >>

\* a variant of endNavigation without setCurrentStep(0)
EndNavigationKeepsStep ==
  /\ mounted
  /\ isNavigating' = FALSE
  /\ routePath' = << >>
  /\ turns' = << >>
  /\ estimatedTimeOfArrival' = Null
  /\ estimatedDistance' = Null
  /\ toast' = "Navigation ended"
  /\ timers' = ProgressEffect(timers, FALSE, << >>, currentStep)
  /\ UNCHANGED << mapVars, callVars, extraVars,
                  currentLocation, destination, waypoints, currentStep, now,
                  mounted >>

\* a variant of endNavigation without setRoutePath([])
EndNavigationKeepsRoute ==
  /\ mounted
  /\ isNavigating' = FALSE
  /\ turns' = << >>
  /\ currentStep' = 0
  /\ estimatedTimeOfArrival' = Null
  /\ estimatedDistance' = Null
  /\ toast' = "Navigation ended"
  /\ timers' = ProgressEffect(timers, FALSE, << >>, 0)
  /\ UNCHANGED << mapVars, callVars, extraVars,
                  currentLocation, destination, routePath, waypoints, now,
                  mounted >>

EndNavigation ==
  /\ mounted
  /\ isNavigating' = FALSE
  /\ routePath' = << >>
  /\ turns' = << >>
  /\ currentStep' = 0
  /\ estimatedTimeOfArrival' = Null
  /\ estimatedDistance' = Null
  /\ toast' = "Navigation ended"
  /\ timers' = ProgressEffect(timers, FALSE, << >>, 0)
  /\ UNCHANGED << mapVars, callVars, extraVars,
                  currentLocation, destination, waypoints, now, mounted >>

(***************************************************************************)
(* The interval callback of the progress effect: live interval number i    *)
(* fires.  It reads the currentStep and turns it closed over; the update   *)
(* setCurrentStep(prev => prev + 1) applies to the current state (and to   *)
(* nothing once the provider is unmounted), and re-runs the effect.        *)
(***************************************************************************)
RemoveAt(s, i) == SubSeq(s, 1, i - 1) \o SubSeq(s, i + 1, Len(s))

\* a variant of the guard that stops one turn early
CanAdvanceEarlyStop(c) == c.currentStep < Len(c.turns) - 2

\* if (currentStep < turns.length - 1)
CanAdvance(c) == c.currentStep < Len(c.turns) - 1

\* a variant of the updater that counts down
NextStepDown(prev) == prev - 1

\* setCurrentStep(prev => prev + 1)
NextStep(prev) == prev + 1

Tick(i) ==
  LET c == timers[i]
  IN  IF CanAdvance(c)
      THEN /\ toast' = c.turns[c.currentStep + 2].instruction
           /\ IF mounted
              THEN /\ currentStep' = NextStep(currentStep)
                   /\ timers' = ProgressEffect(timers, isNavigating, turns,
                                               NextStep(currentStep))
              ELSE UNCHANGED << currentStep, timers >>
           /\ UNCHANGED << mapVars, callVars, extraVars,
                           currentLocation, destination, routePath,
                           waypoints, turns, isNavigating,
                           estimatedTimeOfArrival, estimatedDistance, now,
                           mounted >>
      ELSE /\ timers' = RemoveAt(timers, i)
           /\ UNCHANGED << mapVars, callVars, extraVars,
                           currentLocation, destination, routePath,
                           waypoints, turns, isNavigating,
                           estimatedTimeOfArrival, estimatedDistance,
                           currentStep, toast, now, mounted >>

(***************************************************************************)
(* Teardown and a fresh mount of the provider, and the passing of time.    *)
(***************************************************************************)
Unmount ==
  /\ mounted
  /\ mounted' = FALSE
  /\ timers' = Cleanup(timers)
  /\ currentLocation' = Null
  /\ destination' = Null
  /\ routePath' = << >>
  /\ waypoints' = << >>
  /\ turns' = << >>
  /\ isNavigating' = FALSE
  /\ estimatedTimeOfArrival' = Null
  /\ estimatedDistance' = Null
  /\ currentStep' = 0
  /\ position' = defaultPosition
  /\ providerPosition' = defaultPosition
  /\ UNCHANGED << toast, now, callVars, extraVars >>

Mount ==
  /\ ~mounted
  /\ mounted' = TRUE
  /\ UNCHANGED << mapVars, callVars, extraVars,
                  currentLocation, destination, routePath, waypoints, turns,
                  isNavigating, estimatedTimeOfArrival, estimatedDistance,
                  currentStep, timers, toast, now >>

ClockAdvance ==
  /\ now < MaxClock
  /\ now' = now + 1
  /\ UNCHANGED << mapVars, callVars, extraVars,
                  currentLocation, destination, routePath, waypoints, turns,
                  isNavigating, estimatedTimeOfArrival, estimatedDistance,
                  currentStep, timers, toast, mounted >>

Next ==
  \/ \E loc \in StartLocs : SetCurrentLocation(loc)
  \/ \E loc \in DestinationLocs : SetDestination(loc)
  \/ \E loc \in SelectLocs : HandleLocationSelect(loc)
  \/ \E loc \in WaypointLocs : AddWaypoint(loc)
  \/ \E id \in Ids : RemoveWaypoint(id)
  \/ \E ids \in IdLists : ReorderWaypoints(ids)
  \/ StartNavigation
  \/ EndNavigation
  \/ \E i \in 1..Len(timers) : Tick(i)
  \/ Unmount
  \/ Mount
  \/ ClockAdvance

Spec == Init /\ [][Next]_vars

\* setInterval keeps firing the callback of a live interval
FairSpec == Spec /\ WF_vars(\E i \in 1..Len(timers) : Tick(i))

(***************************************************************************)
(* The helpers of locationUtils, each applied to arguments drawn from a    *)
(* bounded set.                                                            *)
(***************************************************************************)
MaxChange == 720

TurnTypeArgs == { << b >> : b \in (-MaxChange)..MaxChange }

TurnTypeInit ==
  /\ Idle
  /\ args \in TurnTypeArgs
  /\ result = Null

GetTurnType ==
  /\ result = Null
  /\ result' = Some(getTurnType(args[1]))
  /\ UNCHANGED << args, appVars >>

TurnTypeSpec == TurnTypeInit /\ [][GetTurnType]_vars

\* coordinates around the origin, and two far enough for a sum with 360 to
\* absorb an angle
MaxCoord == 2000

BearingCoords == { -MaxCoord, -3, -1, 0, 1, 3, MaxCoord }

BearingArgs ==
  { << s[1], s[2], destLat, destLng >> :
      s \in { << 0, 0 >>, << 3, -1 >> },
      destLat \in BearingCoords, destLng \in BearingCoords }

BearingInit ==
  /\ Idle
  /\ args \in BearingArgs
  /\ result = Null

CalculateBearing ==
  /\ result = Null
  /\ result' = Some(calculateBearing(args[1], args[2], args[3], args[4]))
  /\ UNCHANGED << args, appVars >>

BearingSpec == BearingInit /\ [][CalculateBearing]_vars

\* the directory: entries with the letters of the query alphabet in one
\* place each (name; street, district, city; name of the address; category;
\* description; state, country, postal code)
Address(name, street, district, city, state, country, postalCode) ==
  [name |-> name, street |-> street, district |-> district, city |-> city,
   state |-> state, country |-> country, postalCode |-> postalCode]

LocationResult(id, name, description, category, address) ==
  [id |-> id, name |-> name, description |-> description,
   category |-> category, address |-> address, latitude |-> 0,
   longitude |-> 0]

Directory ==
  { LocationResult("1", << "A", "b" >>, Null, Null, Null),
    LocationResult("2", << "x" >>, Null, Null,
      Some(Address(Null, Some(<< "a" >>), Some(<< "B" >>),
                   Some(<< "b", " ", "a" >>), Null, Null, Null))),
    LocationResult("3", << "y" >>, Null, Null,
      Some(Address(Some(<< "b" >>), Null, Null, Null, Null, Null, Null))),
    LocationResult("4", << "z" >>, Null, Some(<< "B", "a" >>), Null),
    LocationResult("5", << "w" >>, Some(<< "a", "A" >>), Null, Null),
    LocationResult("6", << "v" >>, Null, Null,
      Some(Address(Null, Null, Null, Null, Some(<< "a" >>),
                   Some(<< "b" >>), Some(<< " ", "a" >>)))) }

QueryChars == { "a", "A", "b", " " }

MaxList == 2

MaxQuery == 2

FilterArgs ==
  { << locations, query >> :
      locations \in UNION { [1..n -> Directory] : n \in 0..MaxList },
      query \in UNION { [1..n -> QueryChars] : n \in 0..MaxQuery } }

FilterInit ==
  /\ Idle
  /\ args \in FilterArgs
  /\ result = Null

FilterLocations ==
  /\ result = Null
  /\ result' = Some(filterLocations(args[1], args[2]))
  /\ UNCHANGED << args, appVars >>

FilterSpec == FilterInit /\ [][FilterLocations]_vars

(***************************************************************************)
(* Batched updates.  A handler may call several operations of the context  *)
(* before React renders: each call queues a state update, and the render   *)
(* applies the queue in order to the committed state.  addWaypoint and     *)
(* removeWaypoint queue an updater of the previous state;                  *)
(* reorderWaypoints computes its value from the waypoints of the render    *)
(* its callback was created in (useCallback(..., [waypoints])) and queues  *)
(* that value.                                                             *)
(***************************************************************************)
MaxUpdates == 2

Update(op, location, id, value) ==
  [op |-> op, location |-> location, id |-> id, value |-> value]

\* the waypoints a queue of updates adds
Adds(us) == Len(SelectSeq(us, LAMBDA u : u.op = "add"))

\* one queued update applied to the state before it
ApplyUpdate(prev, u, clock) ==
  IF u.op = "add" THEN addWaypoint(prev, Val(u.location), clock)
  ELSE IF u.op = "filter" THEN removeWaypoint(prev, Val(u.id))
  ELSE u.value

RECURSIVE ApplyUpdates(_, _, _)
ApplyUpdates(prev, us, clock) ==
  IF us = << >> THEN prev
  ELSE ApplyUpdates(ApplyUpdate(prev, Head(us), clock), Tail(us), clock)

\* what a call of the context leaves alone
Queued ==
  UNCHANGED << mapVars, callVars, viewVars, searchVars, currentLocation,
               destination, routePath, waypoints, turns, isNavigating,
               estimatedTimeOfArrival, estimatedDistance, currentStep,
               timers, toast, now, mounted >>

\* setWaypoints(prev => [...prev, { ...location, id: ... }])
CallAddWaypoint(loc) ==
  /\ Len(updates) < MaxUpdates
  /\ Len(waypoints) + Adds(updates) < MaxWaypoints
  /\ updates' = Append(updates, Update("add", Some(loc), Null, << >>))
  /\ Queued

\* setWaypoints(prev => prev.filter(wp => wp.id !== id))
CallRemoveWaypoint(id) ==
  /\ Len(updates) < MaxUpdates
  /\ updates' = Append(updates, Update("filter", Null, Some(id), << >>))
  /\ Queued

\* setWaypoints(reorderedWaypoints), computed from the closure's waypoints
CallReorderWaypoints(ids) ==
  /\ Len(updates) < MaxUpdates
  /\ updates' = Append(updates, Update("set", Null, Null,
                                       reorderWaypoints(waypoints, ids)))
  /\ Queued

\* the handler has returned: React applies the queue and renders
Render ==
  /\ updates # << >>
  /\ waypoints' = ApplyUpdates(waypoints, updates, now)
  /\ updates' = << >>
  /\ UNCHANGED << mapVars, callVars, viewVars, searchVars, currentLocation,
                  destination, routePath, turns, isNavigating,
                  estimatedTimeOfArrival, estimatedDistance, currentStep,
                  timers, toast, now, mounted >>

BatchNext ==
  \/ \E loc \in WaypointLocs : CallAddWaypoint(loc)
  \/ \E id \in Ids : CallRemoveWaypoint(id)
  \/ \E ids \in IdLists : CallReorderWaypoints(ids)
  \/ Render
  \/ ClockAdvance

BatchSpec == Init /\ [][BatchNext]_vars

(***************************************************************************)
(* The view selection of the page (Index): which of the three renderers    *)
(* (2D map, Cesium globe, Earth3D fallback) is visible.                    *)
(***************************************************************************)
\* first listing: if (isLoading) return the loading screen; then
\* isGlobeView ? (cesiumFailed ? Earth3D : CesiumEarth) : Map.
\* second listing: visible={!isGlobeView} of Map
MapVisible ==
  IF page.listing = "first" THEN ~page.isLoading /\ ~page.isGlobeView
  ELSE ~page.isGlobeView

\* second listing: visible={isGlobeView && !is3DFallback}
CesiumVisible ==
  IF page.listing = "first"
  THEN ~page.isLoading /\ page.isGlobeView /\ ~page.cesiumFailed
  ELSE page.isGlobeView /\ ~page.is3DFallback

\* second listing: visible={isGlobeView && is3DFallback}
Earth3DVisible ==
  IF page.listing = "first"
  THEN ~page.isLoading /\ page.isGlobeView /\ page.cesiumFailed
  ELSE page.isGlobeView /\ page.is3DFallback

\* what the handlers of the view selection leave alone
ProviderUntouched ==
  UNCHANGED << providerPosition, callVars, batchVars, searchVars,
               currentLocation, destination, routePath, waypoints, turns,
               isNavigating, estimatedTimeOfArrival, estimatedDistance,
               currentStep, timers, now, mounted >>

\* first listing: setTimeout(() => setIsLoading(false), 2000)
LoadingDone ==
  /\ page.listing = "first"
  /\ page.isLoading
  /\ page' = [page EXCEPT !.isLoading = FALSE]
  /\ UNCHANGED << position, toast >>
  /\ ProviderUntouched

\* first listing: onError of CesiumEarth, called when the viewer of the
\* visible globe fails to initialize
HandleCesiumError ==
  /\ page.listing = "first"
  /\ CesiumVisible
  /\ page' = [page EXCEPT !.cesiumFailed = TRUE, !.is3DFallback = TRUE]
  /\ toast' = "Error loading 3D view"
  /\ UNCHANGED position
  /\ ProviderUntouched

\* a variant of the error listeners that records the failure without
\* switching to the fallback
WindowErrorNoFallback(cesium, three) ==
  /\ page.listing = "second"
  /\ cesium \/ three
  /\ page' = [page EXCEPT !.cesiumFailed = page.cesiumFailed \/ cesium]
  /\ toast' = IF three THEN "3D rendering issue detected"
              ELSE "Error loading 3D view"
  /\ UNCHANGED position
  /\ ProviderUntouched

\* second listing: an error event on window whose message names Cesium
\* (handleCesiumError) or three.js / WebGL (handleThreeError); both
\* listeners see the event, in the order they were added
WindowError(cesium, three) ==
  /\ page.listing = "second"
  /\ cesium \/ three
  /\ page' = [page EXCEPT !.cesiumFailed = page.cesiumFailed \/ cesium,
                          !.is3DFallback = page.is3DFallback \/ cesium]
  /\ toast' = IF three THEN "3D rendering issue detected"
              ELSE "Error loading 3D view"
  /\ UNCHANGED position
  /\ ProviderUntouched

\* first listing: setIsGlobeView(prev => !prev), from the view toggle
HandleToggle ==
  /\ page.listing = "first"
  /\ ~page.isLoading
  /\ page' = [page EXCEPT !.isGlobeView = ~page.isGlobeView]
  /\ UNCHANGED << position, toast >>
  /\ ProviderUntouched

\* second listing: onChange of the view toggle (the 2D and the 3D button)
HandleViewToggle(useGlobeView) ==
  /\ page.listing = "second"
  /\ IF useGlobeView /\ page.cesiumFailed
     THEN /\ page' = [page EXCEPT !.isGlobeView = TRUE,
                                  !.is3DFallback = TRUE]
          /\ toast' = "Using alternative 3D view"
     ELSE /\ page' = [page EXCEPT !.isGlobeView = useGlobeView]
          /\ toast' = IF useGlobeView THEN "Switched to 3D view"
                      ELSE "Switched to 2D view"
  /\ UNCHANGED position
  /\ ProviderUntouched

\* a globe with zoom buttons is visible
ZoomButtons ==
  Earth3DVisible \/ (page.listing = "second" /\ CesiumVisible)

\* onPositionChange({ zoom: Math.min(position.zoom + 1, 20) })
ZoomIn ==
  /\ ZoomButtons
  /\ position' = flyTo(position, [latitude |-> position.latitude,
                                  longitude |-> position.longitude,
                                  zoom |-> Min(position.zoom + 1, 20)])
  /\ UNCHANGED << viewVars, toast >>
  /\ ProviderUntouched

\* onPositionChange({ zoom: Math.max(position.zoom - 1, 1) })
ZoomOut ==
  /\ ZoomButtons
  /\ position' = flyTo(position, [latitude |-> position.latitude,
                                  longitude |-> position.longitude,
                                  zoom |-> Max(position.zoom - 1, 1)])
  /\ UNCHANGED << viewVars, toast >>
  /\ ProviderUntouched

ViewInit ==
  /\ Constructed
  /\ \E listing \in Listings : PageInit(listing)
  /\ args = Null
  /\ result = Null

ViewNext ==
  \/ LoadingDone
  \/ HandleCesiumError
  \/ \E cesium \in BOOLEAN, three \in BOOLEAN : WindowError(cesium, three)
  \/ HandleToggle
  \/ \E useGlobeView \in BOOLEAN : HandleViewToggle(useGlobeView)
  \/ ZoomIn
  \/ ZoomOut

ViewSpec == ViewInit /\ [][ViewNext]_vars

(***************************************************************************)
(* The search bar: the debounced search of its start and its end field.    *)
(* Each field has an effect on its query: a blank query clears the         *)
(* results; any other query sets a timeout of 300 ms whose callback        *)
(* searches for the query it closed over.  When the query changes, the     *)
(* cleanup of the previous run clears that run's timeout.                  *)
(***************************************************************************)
\* getExpandedMockLocations(): the directory, in the order of its ids
allLocations ==
  [i \in 1..Cardinality(Directory) |->
     CHOOSE location \in Directory : location.id = ToString(i)]

\* what the user types or the clear button sets: blank queries, letters
\* and the name of an entry
SearchQueries ==
  { << >>, << " " >>, << "a" >>, << "b" >>, << "A", "b" >> }

\* a variant of the effect that returns no cleanup
ClearTimeoutMissing(ts) == ts

\* return () => clearTimeout(timeoutId): the previous run's timeout, the
\* last one set, is cleared
ClearTimeout(ts) ==
  IF ts = << >> THEN ts ELSE SubSeq(ts, 1, Len(ts) - 1)

\* what the search effects leave alone
SearchOnly ==
  UNCHANGED << mapVars, callVars, batchVars, viewVars, currentLocation,
               destination, routePath, waypoints, turns, isNavigating,
               estimatedTimeOfArrival, estimatedDistance, currentStep,
               timers, toast, now, mounted >>

\* setStartQuery(query) and the effect on [startQuery]
SetStartQuery(query) ==
  /\ query # searchBar.startQuery
  /\ searchBar' =
       IF trim(query) = << >>
       THEN [searchBar EXCEPT
               !.startQuery = query,
               !.startResults = << >>,
               !.startTimeouts = ClearTimeout(searchBar.startTimeouts)]
       ELSE [searchBar EXCEPT
               !.startQuery = query,
               !.isSearchingStart = TRUE,
               !.startTimeouts =
                  Append(ClearTimeout(searchBar.startTimeouts), query)]
  /\ SearchOnly

\* the callback of the start field's timeout number i
StartTimeout(i) ==
  /\ searchBar' =
       [searchBar EXCEPT
          !.startResults =
             filterLocations(allLocations, searchBar.startTimeouts[i]),
          !.isSearchingStart = FALSE,
          !.startTimeouts = RemoveAt(searchBar.startTimeouts, i)]
  /\ SearchOnly

\* setEndQuery(query) and the effect on [endQuery]
SetEndQuery(query) ==
  /\ query # searchBar.endQuery
  /\ searchBar' =
       IF trim(query) = << >>
       THEN [searchBar EXCEPT
               !.endQuery = query,
               !.endResults = << >>,
               !.endTimeouts = ClearTimeout(searchBar.endTimeouts)]
       ELSE [searchBar EXCEPT
               !.endQuery = query,
               !.isSearchingEnd = TRUE,
               !.endTimeouts =
                  Append(ClearTimeout(searchBar.endTimeouts), query)]
  /\ SearchOnly

\* the callback of the end field's timeout number i
EndTimeout(i) ==
  /\ searchBar' =
       [searchBar EXCEPT
          !.endResults =
             filterLocations(allLocations, searchBar.endTimeouts[i]),
          !.isSearchingEnd = FALSE,
          !.endTimeouts = RemoveAt(searchBar.endTimeouts, i)]
  /\ SearchOnly

SearchNext ==
  \/ \E query \in SearchQueries : SetStartQuery(query)
  \/ \E i \in 1..Len(searchBar.startTimeouts) : StartTimeout(i)
  \/ \E query \in SearchQueries : SetEndQuery(query)
  \/ \E i \in 1..Len(searchBar.endTimeouts) : EndTimeout(i)

SearchSpec == Init /\ [][SearchNext]_vars

(***************************************************************************)
(* Properties.                                                             *)
(***************************************************************************)
\* the titles of the notifications of the progress timer
StepTitles ==
  { "Start navigation", "Continue straight", "Turn right", "Make a U-turn",
    "Turn left", "Arrive at destination", "Continuing" }

\* C1: startNavigation() while currentLocation or destination is unset
\* changes nothing of the navigation state (isNavigating stays false,
\* routePath, turns, currentStep, ETA and distance are unchanged) and shows
\* the advisory notification "Cannot start navigation".
C1_RejectedStartIsNoOp ==
  [][ ((currentLocation = Null \/ destination = Null) /\ StartNavigation)
        => /\ UNCHANGED navState
           /\ ~isNavigating'
           /\ toast' = "Cannot start navigation" ]_vars

C1_Witness ==
  /\ toast = "Cannot start navigation"
  /\ currentLocation = Null
  /\ destination # Null
  /\ ~isNavigating
  /\ routePath = << >>

\* C2: from every reachable state, endNavigation() yields routePath = [],
\* turns = [], currentStep = 0, estimatedTimeOfArrival = null,
\* estimatedDistance = null and isNavigating = false.
C2_EndNavigationClears ==
  [][ EndNavigation
        => /\ routePath' = << >>
           /\ turns' = << >>
           /\ currentStep' = 0
           /\ estimatedTimeOfArrival' = Null
           /\ estimatedDistance' = Null
           /\ ~isNavigating' ]_vars

C2_Witness ==
  /\ toast = "Navigation ended"
  /\ currentLocation # Null
  /\ destination # Null
  /\ routePath = << >>
  /\ turns = << >>
  /\ currentStep = 0
  /\ estimatedTimeOfArrival = Null
  /\ estimatedDistance = Null
  /\ ~isNavigating

\* C3: in every reachable state routePath is non-empty only if isNavigating
\* is true.
C3_RouteOnlyWhileNavigating ==
  routePath # << >> => isNavigating

C3_Witness ==
  /\ routePath # << >>
  /\ isNavigating
  /\ currentStep > 0

\* C4: in every reachable state with isNavigating = true,
\* 0 <= currentStep < turns.length.
C4_StepInRange ==
  isNavigating => (0 <= currentStep /\ currentStep < Len(turns))

C4_Witness ==
  /\ isNavigating
  /\ currentStep = Len(turns) - 1
  /\ currentStep > 1

\* C5 as claimed: no step taken while isNavigating is true lowers
\* currentStep.
C5_StepNeverDecreases ==
  [][ (isNavigating /\ isNavigating') => currentStep' >= currentStep ]_vars

\* C5 as amended: while navigating, the only step that lowers currentStep is
\* a startNavigation() called again during the active navigation, which
\* sets it to 0; every other step leaves it or advances it by one, and
\* never past turns.length - 1.
C5_StepDecreasesOnlyOnRestart ==
  [][ (isNavigating /\ isNavigating')
        => \/ /\ currentStep' >= currentStep
              /\ currentStep' <= currentStep + 1
              /\ currentStep' <= Max(currentStep, Len(turns') - 1)
           \/ /\ StartNavigation
              /\ currentStep' = 0 ]_vars

C5_Witness ==
  /\ isNavigating
  /\ currentStep = 1
  /\ Len(turns) > 2
  /\ toast = turns[2].instruction

\* C6: waypoint ids are unique within the waypoint sequence in every
\* reachable state.
C6_WaypointIdsUnique ==
  \A i, j \in 1..Len(waypoints) :
    i # j => waypoints[i].id # waypoints[j].id

\* C7: once navigation has ended (endNavigation or teardown), no step
\* changes currentStep or shows a step notification until startNavigation
\* succeeds again.
C7_NoTickAfterEnd ==
  [][ (~isNavigating /\ ~isNavigating')
        => /\ currentStep' = currentStep
           /\ (toast' \in StepTitles => toast' = toast) ]_vars

C7_Witness ==
  /\ toast = "Navigation ended"
  /\ ~isNavigating
  /\ mounted
  /\ timers = << >>
  /\ waypoints # << >>

\* C8: there is never more than one live progress timer, there is none
\* while isNavigating is false, there is exactly one while navigating
\* before the last turn, and a live timer's callback holds the current
\* currentStep and turns.
C8_OneTimerPerSession ==
  /\ Len(timers) <= 1
  /\ ~isNavigating => timers = << >>
  /\ (isNavigating /\ currentStep < Len(turns) - 1) => Len(timers) = 1
  /\ timers # << >>
       => timers[1] = [currentStep |-> currentStep, turns |-> turns]

C8_Witness ==
  /\ isNavigating
  /\ Len(timers) = 1
  /\ currentStep > 0
  /\ toast \in StepTitles

\* C9: every successful startNavigation() leaves isNavigating true and a
\* routePath of at least 2 points whose first point has the coordinates of
\* currentLocation and whose last point has those of destination.
C9_RouteJoinsEndpoints ==
  [][ (/\ currentLocation # Null
       /\ destination # Null
       /\ toast' = "Navigation started"
       /\ StartNavigation)
        => /\ isNavigating'
           /\ Len(routePath') >= 2
           /\ routePath'[1] = Coord(Val(currentLocation))
           /\ Last(routePath') = Coord(Val(destination)) ]_vars

C9_Witness ==
  /\ toast = "Navigation started"
  /\ isNavigating
  /\ waypoints # << >>
  /\ Len(routePath) >= 2
  /\ routePath[1] = Coord(Val(currentLocation))
  /\ Last(routePath) = Coord(Val(destination))
  /\ currentLocation # destination

\* C10: whenever turns is non-empty, its first entry is the start marker
\* ("Start navigation", distance 0, at routePath[0]), its last entry is the
\* arrival marker ("Arrive at destination", at the last point of
\* routePath), and turns is the turn derivation of the current routePath.
C10_TurnsDerivedFromRoute ==
  turns # << >>
    => /\ routePath # << >>
       /\ turns[1].instruction = "Start navigation"
       /\ turns[1].distance = 0
       /\ turns[1].location = routePath[1]
       /\ Last(turns).instruction = "Arrive at destination"
       /\ Last(turns).location = Last(routePath)
       /\ turns = calculateTurns(routePath)

C10_Witness ==
  /\ turns # << >>
  /\ Len(turns) < Len(routePath)
  /\ Len(turns) > 2
  /\ turns[1].instruction = "Start navigation"
  /\ Last(turns).instruction = "Arrive at destination"

\* the bearing change at a turn entry, from its two bearings
BearingChange(t) == (t.toBearing - t.fromBearing + 360) % 360

\* C11: an interior path point is emitted as a turn entry only if
\* |bearingChange - 180| > 20, so that points of near-straight continuation
\* are left out of the turn list: every interior entry of turns lies at a
\* point whose bearing change exceeds the threshold of 20 degrees.
C11_StraightPointsSuppressed ==
  \A i \in 2..(Len(turns) - 1) :
    LET bearingChange == BearingChange(turns[i])
    IN  /\ Abs(bearingChange - 180) > 20
        /\ bearingChange > 20
        /\ bearingChange < 340

\* C16: getTurnType brings any bearing change, negative or 360 and above
\* included, into [0, 360) and returns continue below 20 or above 340,
\* slight right for [20, 60), right for [60, 120), sharp right for
\* [120, 150), u-turn for [150, 210], sharp left for (210, 240], left for
\* (240, 300] and slight left otherwise; 0 is continue, 90 right, 180
\* u-turn and 270 left.
C16_TurnTypeBuckets ==
  (args \in TurnTypeArgs /\ result # Null)
    => LET n == args[1] % 360
           t == Val(result)
       IN  /\ (n < 20 \/ n > 340) <=> t = "continue"
           /\ (20 <= n /\ n < 60) <=> t = "slight right"
           /\ (60 <= n /\ n < 120) <=> t = "right"
           /\ (120 <= n /\ n < 150) <=> t = "sharp right"
           /\ (150 <= n /\ n <= 210) <=> t = "u-turn"
           /\ (210 < n /\ n <= 240) <=> t = "sharp left"
           /\ (240 < n /\ n <= 300) <=> t = "left"
           /\ (300 < n /\ n <= 340) <=> t = "slight left"
           /\ args[1] = 0 => t = "continue"
           /\ args[1] = 90 => t = "right"
           /\ args[1] = 180 => t = "u-turn"
           /\ args[1] = 270 => t = "left"

C16_Witness ==
  /\ args = << -450 >>
  /\ result = Some("left")

\* C17: calculateBearing(a, b) is in [0, 360), never negative and never 360,
\* and calculateBearing(a, a) is 0.
C17_BearingInRange ==
  (args \in BearingArgs /\ result # Null)
    => /\ 0 <= Val(result)
       /\ Val(result) < 360
       /\ (args[1] = args[3] /\ args[2] = args[4]) => Val(result) = 0

\* the waypoints the claim names: for each id of ids, in the order of ids,
\* the current waypoints with that id
RECURSIVE Matching(_, _)
Matching(wps, ids) ==
  IF ids = << >> THEN << >>
  ELSE SelectSeq(wps, LAMBDA wp : wp.id = Head(ids))
         \o Matching(wps, Tail(ids))

\* C12: reorderWaypoints(ids) replaces the waypoint sequence with exactly
\* the current waypoints whose id occurs in ids, in the order given by ids:
\* an id that matches no waypoint contributes nothing, and a waypoint whose
\* id is left out of ids is removed.
C12_ReorderKeepsMatching ==
  [][ \A ids \in IdLists :
        ReorderWaypoints(ids)
          => /\ waypoints' = Matching(waypoints, ids)
             /\ \A i \in 1..Len(waypoints) :
                  (\E j \in 1..Len(ids) : ids[j] = waypoints[i].id)
                    <=> (\E k \in 1..Len(waypoints') :
                           waypoints'[k] = waypoints[i]) ]_vars

\* C13: endNavigation() leaves waypoints, currentLocation and destination
\* unchanged; while the provider lives, no startNavigation, endNavigation
\* or timer step changes the waypoints: only addWaypoint, removeWaypoint
\* and reorderWaypoints do.
C13_WaypointsPersist ==
  [][ /\ EndNavigation
           => UNCHANGED << waypoints, currentLocation, destination >>
      /\ (StartNavigation \/ EndNavigation \/ \E i \in 1..Len(timers) : Tick(i))
           => waypoints' = waypoints
      /\ (mounted' /\ waypoints' # waypoints)
           => \/ \E loc \in WaypointLocs : AddWaypoint(loc)
              \/ \E id \in Ids : RemoveWaypoint(id)
              \/ \E ids \in IdLists : ReorderWaypoints(ids) ]_vars

C13_Witness ==
  /\ toast = "Navigation ended"
  /\ Len(waypoints) = 2
  /\ currentLocation # Null
  /\ destination # Null
  /\ ~isNavigating

C15_PageFliesToMidpoint ==
  [][ (/\ currentLocation # Null
       /\ destination # Null
       /\ toast' = "Navigation started"
       /\ StartNavigation)
        => LET mid == RoutePosition(Val(currentLocation), Val(destination))
           IN  /\ position'.latitude = mid.latitude
               /\ position'.longitude = mid.longitude ]_vars

\* the strings of an entry that are present
Present(fields) == { Val(f) : f \in { g \in fields : g # Null } }

\* name, every address field, category and description
AllFields(l) ==
  { l.name } \cup Present({ l.category, l.description })
    \cup (IF l.address = Null THEN { }
          ELSE LET a == Val(l.address)
               IN  Present({ a.name, a.street, a.district, a.city, a.state,
                             a.country, a.postalCode }))

\* name, the address fields the search reads, category and description
SearchedFields(l) ==
  { l.name } \cup Present({ l.category, l.description })
    \cup (IF l.address = Null THEN { }
          ELSE LET a == Val(l.address)
               IN  Present({ a.street, a.district, a.city, a.state,
                             a.country, a.postalCode }))

\* C18 as claimed: filterLocations(locations, query) is the subsequence of
\* locations, in list order and each entry once, of exactly the entries
\* with a name, address field, category or description that contains the
\* query as a case-insensitive substring.
C18_FilterBySubstring ==
  (args \in FilterArgs /\ result # Null)
    => Val(result) =
         SelectSeq(args[1],
           LAMBDA l : \E f \in AllFields(l) :
                        includes(toLowerCase(f), toLowerCase(args[2])))

\* C18 as amended: the query is lower-cased and trimmed first; a blank
\* query yields the empty list; otherwise the result is the subsequence of
\* locations, in list order and each entry once, of exactly the entries
\* whose name, street, district, city, state, country, postal code,
\* category or description contains the trimmed query, case-insensitively.
C18_FilterByTrimmedQuery ==
  (args \in FilterArgs /\ result # Null)
    => LET q == trim(toLowerCase(args[2]))
       IN  IF q = << >> THEN Val(result) = << >>
           ELSE Val(result) =
                  SelectSeq(args[1],
                    LAMBDA l : \E f \in SearchedFields(l) :
                                 includes(toLowerCase(f), q))

C18_Witness ==
  /\ args \in FilterArgs
  /\ args[2] = << "A", " " >>
  /\ Len(args[1]) = 2
  /\ args[1][1].id = "5"
  /\ args[1][2].id = "3"
  /\ result # Null
  /\ Len(Val(result)) = 1
  /\ Val(result)[1].id = "5"

\* a step that ends or restarts the navigation session
SessionBreak == StartNavigation \/ EndNavigation \/ Unmount

\* C19: while isNavigating is true and turns has more than one entry, a
\* timer tick advances currentStep by exactly 1 until it equals
\* turns.length - 1, and a tick after that leaves it unchanged; when ticks
\* are fair and from some point on the session is neither ended nor
\* restarted, a navigation reaches currentStep = turns.length - 1.
C19_TicksReachLastTurn ==
  /\ [][ \A i \in 1..Len(timers) :
           (isNavigating /\ Len(turns) > 1 /\ Tick(i))
             => currentStep' = IF currentStep < Len(turns) - 1
                               THEN currentStep + 1
                               ELSE currentStep ]_vars
  /\ (<>[][~SessionBreak]_vars
        => [](isNavigating
                => <>(~isNavigating \/ currentStep = Len(turns) - 1)))

C19_Witness ==
  /\ isNavigating
  /\ Len(turns) > 2
  /\ currentStep = Len(turns) - 1
  /\ toast = "Arrive at destination"
  /\ timers = << >>

\* whether the points of stops occur in path from index i on, in order
RECURSIVE OccurInOrder(_, _, _)
OccurInOrder(path, i, stops) ==
  IF stops = << >> THEN TRUE
  ELSE IF i > Len(path) THEN FALSE
  ELSE IF path[i] = Head(stops) THEN OccurInOrder(path, i + 1, Tail(stops))
  ELSE OccurInOrder(path, i + 1, stops)

InstructionOf(bearingChange) ==
  CASE bearingChange > 30 /\ bearingChange < 150 -> "Turn right"
    [] bearingChange >= 150 /\ bearingChange <= 210 -> "Make a U-turn"
    [] bearingChange > 210 /\ bearingChange < 330 -> "Turn left"
    [] OTHER -> "Continue straight"

C22_StepAccessors ==
  /\ getCurrentStep =
       IF isNavigating /\ currentStep + 1 \in 1..Len(turns)
       THEN Some(turns[currentStep + 1]) ELSE Null
  /\ getNextTurn =
       IF isNavigating /\ currentStep + 2 \in 1..Len(turns)
       THEN Some(turns[currentStep + 2]) ELSE Null
  /\ (getNextTurn = Null)
       <=> (~isNavigating \/ currentStep = Len(turns) - 1)

C22_Witness ==
  /\ isNavigating
  /\ currentStep > 0
  /\ currentStep = Len(turns) - 1
  /\ getCurrentStep = Some(Last(turns))
  /\ getNextTurn = Null

\* the sum of the distances of the consecutive pairs of a path
RECURSIVE PathLength(_)
PathLength(path) ==
  IF Len(path) < 2 THEN 0
  ELSE PathLength(SubSeq(path, 1, Len(path) - 1))
         + Distance(path[Len(path) - 1], path[Len(path)])

\* C23: routePath, turns, estimatedTimeOfArrival and estimatedDistance are
\* produced only by startNavigation and destroyed by endNavigation: in every
\* reachable state the ETA and the distance are non-null, and turns is
\* non-empty, exactly when isNavigating is true; estimatedDistance is the
\* sum of the distances of all consecutive routePath pairs and the ETA is
\* not earlier than the time of the startNavigation call.
C23_RouteDataWhileNavigating ==
  /\ [](/\ (estimatedTimeOfArrival # Null) <=> isNavigating
        /\ (estimatedDistance # Null) <=> isNavigating
        /\ (turns # << >>) <=> isNavigating
        /\ isNavigating => Val(estimatedDistance) = PathLength(routePath))
  /\ [][ /\ (routePath' # routePath \/ turns' # turns
               \/ estimatedTimeOfArrival' # estimatedTimeOfArrival
               \/ estimatedDistance' # estimatedDistance)
             => (StartNavigation \/ EndNavigation \/ Unmount)
         /\ (StartNavigation /\ isNavigating')
             => Val(estimatedTimeOfArrival') >= now ]_vars

C23_Witness ==
  /\ isNavigating
  /\ now = MaxClock
  /\ waypoints # << >>
  /\ Val(estimatedDistance) = PathLength(routePath)
  /\ Val(estimatedDistance) > 0
  /\ Val(estimatedTimeOfArrival) > now

\* a sequence without its element at position i
Without(s, i) == SubSeq(s, 1, i - 1) \o SubSeq(s, i + 1, Len(s))

\* C24: removeWaypoint(id) removes the waypoint with that id and nothing
\* else: every other waypoint stays, in the same relative order, the length
\* decreases by exactly one when the id is present, and the call is a no-op
\* when the id is absent.
C24_RemoveExactlyOne ==
  [][ \A id \in Ids :
        RemoveWaypoint(id)
          => IF \E i \in 1..Len(waypoints) : waypoints[i].id = id
             THEN /\ Len(waypoints') = Len(waypoints) - 1
                  /\ \E i \in 1..Len(waypoints) :
                       /\ waypoints[i].id = id
                       /\ waypoints' = Without(waypoints, i)
             ELSE waypoints' = waypoints ]_vars

\* C25: the route synthesizer never returns fewer than 4 points (start, at
\* least one step per axis, end), so after every successful
\* startNavigation() routePath.length >= 4 and turns.length >= 2; the empty
\* turn list that calculateTurns returns for paths shorter than 3 points is
\* unreachable while navigating, even when currentLocation equals
\* destination.
C25_RouteHasFourPoints ==
  /\ [](isNavigating
          => /\ Len(routePath) >= 4
             /\ Len(turns) >= 2
             /\ turns # calculateTurns(<< >>))
  /\ [][ (StartNavigation /\ toast' = "Navigation started")
           => /\ Len(routePath') >= 4 * (Len(waypoints) + 1) - Len(waypoints)
              /\ Len(turns') >= 2 ]_vars

C25_Witness ==
  /\ isNavigating
  /\ toast = "Navigation started"
  /\ waypoints = << >>
  /\ Coord(Val(currentLocation)) = Coord(Val(destination))
  /\ Len(routePath) = 4
  /\ Len(turns) >= 2

\* C26: in every reachable state with isNavigating = true, routePath starts
\* at the coordinates of currentLocation and ends at the coordinates of
\* destination, also after setCurrentLocation, setDestination or a waypoint
\* mutation is called during an active navigation.
C26_RouteFollowsEndpoints ==
  isNavigating
    => /\ currentLocation # Null
       /\ destination # Null
       /\ routePath # << >>
       /\ routePath[1] = Coord(Val(currentLocation))
       /\ Last(routePath) = Coord(Val(destination))

\* C27: reorderWaypoints computes its result from the waypoint sequence that
\* is current when it is applied: a waypoint removed by removeWaypoint never
\* reappears in the waypoint sequence through a later reorderWaypoints
\* call, including a reorderWaypoints issued from a handler that captured
\* the sequence before the removal was rendered.
C27_RemovedStaysRemoved ==
  [][ Render
        => \A i \in 1..Len(updates) :
             (/\ updates[i].op = "filter"
              /\ \A j \in (i + 1)..Len(updates) : updates[j].op # "add")
               => \A k \in 1..Len(waypoints') :
                    waypoints'[k].id # Val(updates[i].id) ]_vars

\* C28: for every route produced by startNavigation, the distance fields of
\* all entries of turns sum to at most estimatedDistance, so the travelled
\* distance used by getProgress never exceeds estimatedDistance at any step
\* index and the clamp to 100 never changes the result.
C28_TurnDistancesWithinTotal ==
  isNavigating
    => /\ DistanceTraveled(turns, Len(turns)) <= Val(estimatedDistance)
       /\ \A step \in 0..Len(turns) :
            DistanceTraveled(turns, step) <= Val(estimatedDistance)
       /\ (currentStep > 0 /\ Val(estimatedDistance) > 0)
            => getProgress = (DistanceTraveled(turns, currentStep) * 100)
                               \div Val(estimatedDistance)

C28_Witness ==
  /\ isNavigating
  /\ currentStep = Len(turns) - 1
  /\ currentStep > 1
  /\ DistanceTraveled(turns, Len(turns)) = Val(estimatedDistance)
  /\ getProgress > 0
  /\ getProgress < 100

\* the renderers that are visible
VisibleRenderers ==
  (IF MapVisible THEN { "Map" } ELSE { })
    \cup (IF CesiumVisible THEN { "CesiumEarth" } ELSE { })
    \cup (IF Earth3DVisible THEN { "Earth3D" } ELSE { })

C30_NoStaleResults ==
  /\ Len(searchBar.startTimeouts) <= 1
  /\ Len(searchBar.endTimeouts) <= 1
  /\ searchBar.startTimeouts = << >>
       => searchBar.startResults
            = filterLocations(allLocations, searchBar.startQuery)
  /\ searchBar.endTimeouts = << >>
       => searchBar.endResults
            = filterLocations(allLocations, searchBar.endQuery)
  /\ trim(searchBar.startQuery) = << >> => searchBar.startResults = << >>
  /\ trim(searchBar.endQuery) = << >> => searchBar.endResults = << >>

C30_Witness ==
  /\ searchBar.startQuery = << "b" >>
  /\ searchBar.startTimeouts = << >>
  /\ searchBar.startResults = filterLocations(allLocations, << "b" >>)
  /\ searchBar.startResults # filterLocations(allLocations, << "a" >>)
  /\ searchBar.startResults # << >>
  /\ searchBar.endQuery = << " " >>
  /\ searchBar.endResults = << >>
  /\ searchBar.isSearchingEnd

=============================================================================
